---- MODULE Spec2Model ----
(***************************************************************************)
(* Model of ruplicity-fuse: the inode space, the per-snapshot trees built  *)
(* from the signature stream (src/src/fs/tree.rs) and the FUSE handlers    *)
(* that serve getattr / readdir / lookup / readlink (src/src/fs/mod.rs).   *)
(*                                                                         *)
(* Conventions.  An Option is a sequence: None is <<>>, Some(x) is <<x>>.  *)
(* A signature stream is a sequence of records; the record with stream     *)
(* index i (0-based, as in the code) is entries[i + 1].  A path is the     *)
(* sequence of its components.                                             *)
(***************************************************************************)
EXTENDS Integers, Sequences, FiniteSets, TLC

\* ------------------------------------------------------------------ bounds
\* Records (the root included) of a snapshot's signature stream, mounted backup.
MaxRecords == 4
\* Snapshots of the mounted backup.
MaxSnapshots == 2
\* Entries a readdir reply buffer holds, at most (at least MinCap).
MaxCap == 3
\* Records of the streams the tree functions are applied to on their own.
MaxTreeRecords == 5
\* The first inodes the tree functions are applied with on their own are
\* TreeFirstIno .. TreeFirstIno + MaxFirstInoSpan.
MaxFirstInoSpan == 1

None == <<>>
Some(x) == <<x>>

Last(s) == s[Len(s)]

Max(a, b) == IF a >= b THEN a ELSE b

Min(a, b) == IF a <= b THEN a ELSE b

\* ------------------------------------------------- signature streams (input)
\* The name of the record with stream index i >= 1: names are distinct within
\* a stream, as the paths of a duplicity signature are.
NameTable == <<"a", "b", "c", "d", "e", "f", "g", "h">>

NameOf(i) == NameTable[i]

\* The depth sequences of the depth-first streams of n records: the first
\* record is the root (depth 0), every other record is one level below some
\* record of the current branch, so each directory's subtree is contiguous.
DepthSeqs(n) ==
    { d \in [1..n -> 0..(n - 1)] :
        /\ d[1] = 0
        /\ \A i \in 2..n : d[i] >= 1 /\ d[i] <= d[i - 1] + 1 }

RECURSIVE PathAt(_, _)
PathAt(d, i) ==
    IF d[i] = 0 THEN <<>>
    ELSE LET p == CHOOSE j \in 1..(i - 1) :
                    /\ d[j] = d[i] - 1
                    /\ \A k \in (j + 1)..(i - 1) : d[k] >= d[i]
         IN Append(PathAt(d, p), NameOf(i - 1))

\* The entry type of record i: a record followed by a deeper one is a
\* directory; the others take the kinds of the signature format in turn.
LeafTypes == <<"File", "SymLink", "Dir", "Fifo">>

TypeAt(d, i) ==
    IF d[i] = 0 \/ (i < Len(d) /\ d[i + 1] > d[i]) THEN "Dir"
    ELSE LeafTypes[((i - 2) % Len(LeafTypes)) + 1]

\* linked_path of a record: only a symbolic link has one.
LinkedPathOf(type) == IF type = "SymLink" THEN Some("/etc/hosts") ELSE None

StreamOf(d) ==
    [i \in DOMAIN d |->
        [path |-> PathAt(d, i),
         entry_type |-> TypeAt(d, i),
         linked_path |-> LinkedPathOf(TypeAt(d, i))]]

Streams(n) == UNION { { StreamOf(d) : d \in DepthSeqs(m) } : m \in 1..n }

\* records [root, a, a/b, a/b/c, d]
ExampleStream == StreamOf(<<0, 1, 2, 3, 1>>)

\* ------------------------------------------------------------ tree.rs: TreeNode
RECURSIVE TreeNode_inodes(_)
TreeNode_inodes(node) ==
    LET last == IF node.children # <<>>
                THEN TreeNode_inodes(Last(node.children))[2]
                ELSE node.ino
    IN <<node.ino, last>>

\* The peek taking the stream as ended while its last record is still unread.
BelongsToChildren_StopsEarly(entries, pos, path_depth) ==
    /\ pos + 1 < Len(entries)
    /\ Len(entries[pos + 1].path) > path_depth

\* The depth test one component short: nth(path_depth - 1) for nth(path_depth).
BelongsToChildren_OneShort(entries, pos, path_depth) ==
    /\ pos < Len(entries)
    /\ Len(entries[pos + 1].path) >= path_depth

\* entries.peek() is Some(entry) and entry.path().components().nth(path_depth)
\* is Some: the peeked record belongs to the children being collected.
BelongsToChildren(entries, pos, path_depth) ==
    /\ pos < Len(entries)
    /\ Len(entries[pos + 1].path) > path_depth

RECURSIVE TreeNode_new(_, _, _, _, _)
RECURSIVE new_children_loop(_, _, _, _, _, _)

\* pos is the number of records the peekable stream has yielded so far; the
\* result carries the position the call leaves the stream at.
\* TreeNode::new handing its own index, not index + 1, to its children.
TreeNode_new_SameIndex(path_depth, index, ino, entries, pos) ==
    IF pos >= Len(entries)
    THEN [some |-> FALSE, pos |-> pos]
    ELSE LET ch == new_children_loop(path_depth, index, ino + 1,
                                     entries, pos + 1, <<>>)
         IN [some |-> TRUE,
             node |-> [index |-> index, ino |-> ino, children |-> ch.result],
             pos  |-> ch.pos]

TreeNode_new(path_depth, index, ino, entries, pos) ==
    IF pos >= Len(entries)
    THEN [some |-> FALSE, pos |-> pos]
    ELSE LET ch == new_children_loop(path_depth, index + 1, ino + 1,
                                     entries, pos + 1, <<>>)
         IN [some |-> TRUE,
             node |-> [index |-> index, ino |-> ino, children |-> ch.result],
             pos  |-> ch.pos]

\* child_entries without the "+ 1": the child's own record is not counted.
ChildEntries_NoPlusOne(child, ino) == TreeNode_inodes(child)[2] - ino

\* the value of child_entries for a child created with inode ino
ChildEntries(child, ino) == TreeNode_inodes(child)[2] - ino + 1

new_children_loop(path_depth, index, ino, entries, pos, result) ==
    IF ~BelongsToChildren(entries, pos, path_depth)
    THEN [result |-> result, pos |-> pos]
    ELSE LET c == TreeNode_new(path_depth + 1, index, ino, entries, pos)
         IN IF ~c.some
            THEN [result |-> result, pos |-> c.pos]
            ELSE LET child_entries == ChildEntries(c.node, ino)
                 IN new_children_loop(path_depth, index + child_entries,
                                      ino + child_entries, entries, c.pos,
                                      Append(result, c.node))

new_children(path_depth, index, first_ino, entries, pos) ==
    new_children_loop(path_depth, index, first_ino, entries, pos, <<>>)

\* -------------------------------------------------------- tree.rs: SnapshotTree
\* The tree of a snapshot: the root node, and the inode of the snapshot
\* directory held alongside it.
SnapshotTree_new(entries, snapshot_ino, first_ino) ==
    LET r == TreeNode_new(0, 0, first_ino, entries, 0)
    IN [snapshot_ino |-> snapshot_ino,
        root |-> IF r.some THEN r.node
                 ELSE [index |-> 0, ino |-> first_ino, children |-> <<>>]]

snapshot_ino(tree) == tree.snapshot_ino

SnapshotTree_inodes(tree) ==
    IF tree.root.children # <<>>
    THEN Some(<<TreeNode_inodes(tree.root.children[1])[1],
                TreeNode_inodes(Last(tree.root.children))[2]>>)
    ELSE None

\* The closure given to binary_search_by in find_node_rec.
ChildOrdering(c, ino) ==
    LET r == TreeNode_inodes(c)
    IN IF ino < r[1] THEN "Less"
       ELSE IF ino > r[2] THEN "Greater"
       ELSE "Equal"

\* slice::binary_search_by of the standard library the crate was written for:
\* Less moves the base past the probe, Greater keeps it, the limit halves.
\* Ok(ix) is Some(ix) (0-based), Err(_) is None.
RECURSIVE binary_search_by(_, _, _, _)
binary_search_by(children, ino, base, lim) ==
    IF lim = 0 THEN None
    ELSE LET ix  == base + (lim \div 2)
             ord == ChildOrdering(children[ix + 1], ino)
         IN IF ord = "Equal" THEN Some(ix)
            ELSE IF ord = "Less"
                 THEN binary_search_by(children, ino, ix + 1, (lim - 1) \div 2)
                 ELSE binary_search_by(children, ino, base, lim \div 2)

\* find_node_rec descending without counting the level.
RECURSIVE find_node_rec_FlatDepth(_, _, _)
find_node_rec_FlatDepth(node, ino, depth) ==
    IF node.ino = ino THEN Some([node |-> node, depth |-> depth])
    ELSE LET r == TreeNode_inodes(node)
         IN IF ino < r[1] \/ ino > r[2] THEN None
            ELSE LET child_index ==
                         binary_search_by(node.children, ino, 0, Len(node.children))
                 IN IF child_index # None
                    THEN find_node_rec_FlatDepth(node.children[child_index[1] + 1],
                                                 ino, depth)
                    ELSE None

RECURSIVE find_node_rec(_, _, _)
find_node_rec(node, ino, depth) ==
    IF node.ino = ino THEN Some([node |-> node, depth |-> depth])
    ELSE LET r == TreeNode_inodes(node)
         IN IF ino < r[1] \/ ino > r[2] THEN None
            ELSE LET child_index ==
                         binary_search_by(node.children, ino, 0, Len(node.children))
                 IN IF child_index # None
                    THEN find_node_rec(node.children[child_index[1] + 1], ino, depth + 1)
                    ELSE None

find_node(tree, ino) == find_node_rec(tree.root, ino, 0)

\* ---------------------------------------------- tree.rs: ChildrenIter, PathEntry
\* The iterator built by SnapshotTree::children and NodeEntry::children:
\* tree_it is the sequence of child nodes still to visit, entry_pos the number
\* of records entry_it has yielded (the root record is skipped on creation).
\* entries.next().unwrap() panics on a stream without records.
ChildrenIter_new(children, entries, path_depth) ==
    [panic |-> Len(entries) = 0,
     tree_it |-> children, entries |-> entries, entry_pos |-> 1,
     curr_index |-> 0, path_depth |-> path_depth]

SnapshotTree_children(tree, entries) ==
    ChildrenIter_new(tree.root.children, entries, 0)

NodeEntry_children(entry, entries) ==
    ChildrenIter_new(entry.node.children, entries, entry.depth)

\* ChildrenIter::next with skip = child.index - curr_index, the "- 1" lost.
ChildrenIter_next_NoMinusOne(it) ==
    IF it.tree_it = <<>>
    THEN [some |-> FALSE, panic |-> FALSE, it |-> it]
    ELSE LET child == Head(it.tree_it)
             skip  == child.index - it.curr_index
         IN IF skip < 0 \/ it.entry_pos + skip >= Len(it.entries)
            THEN [some |-> FALSE, panic |-> TRUE, it |-> it]
            ELSE [some |-> TRUE, panic |-> FALSE,
                  item |-> [node  |-> child,
                            entry |-> it.entries[it.entry_pos + skip + 1],
                            depth |-> it.path_depth],
                  it |-> [it EXCEPT !.tree_it = Tail(it.tree_it),
                                    !.entry_pos = it.entry_pos + skip + 1,
                                    !.curr_index = it.curr_index + skip + 1]]

\* ChildrenIter::next.  skip is computed in usize: a negative value, or a
\* skip past the end of the stream (nth(skip) is None), panics.
ChildrenIter_next(it) ==
    IF it.tree_it = <<>>
    THEN [some |-> FALSE, panic |-> FALSE, it |-> it]
    ELSE LET child == Head(it.tree_it)
             skip  == child.index - it.curr_index - 1
         IN IF skip < 0 \/ it.entry_pos + skip >= Len(it.entries)
            THEN [some |-> FALSE, panic |-> TRUE, it |-> it]
            ELSE [some |-> TRUE, panic |-> FALSE,
                  item |-> [node  |-> child,
                            entry |-> it.entries[it.entry_pos + skip + 1],
                            depth |-> it.path_depth],
                  it |-> [it EXCEPT !.tree_it = Tail(it.tree_it),
                                    !.entry_pos = it.entry_pos + skip + 1,
                                    !.curr_index = it.curr_index + skip + 1]]

\* Component::Normal: a plain name, neither "." nor "..".
IsNormal(c) == c # "." /\ c # ".."

\* PathEntry::path: [panic] when the record has no component at the depth
\* (nth(depth).unwrap()), else the Option of the plain name there.
PathEntry_path(pe) ==
    IF Len(pe.entry.path) <= pe.depth
    THEN [panic |-> TRUE, path |-> None]
    ELSE [panic |-> FALSE,
          path |-> IF IsNormal(pe.entry.path[pe.depth + 1])
                   THEN Some(pe.entry.path[pe.depth + 1])
                   ELSE None]

PathEntry_ino(pe) == pe.node.ino

\* NodeEntry::as_path_entry: the node paired with the record at its stream
\* index, re-read from a fresh stream.
NodeEntry_as_path_entry(entry, entries) ==
    [node |-> entry.node, entry |-> entries[entry.node.index + 1],
     depth |-> entry.depth]

\* The inode of the node whose children hold the node of inode ino (the
\* tree's root node for a top-level entry).
RECURSIVE ParentInoRec(_, _)
ParentInoRec(node, ino) ==
    IF \E i \in 1..Len(node.children) : node.children[i].ino = ino
    THEN Some(node.ino)
    ELSE LET inside == { i \in 1..Len(node.children) :
                           /\ TreeNode_inodes(node.children[i])[1] <= ino
                           /\ ino <= TreeNode_inodes(node.children[i])[2] }
         IN IF inside = {} THEN None
            ELSE ParentInoRec(node.children[CHOOSE i \in inside : TRUE], ino)

\* NodeEntry::parent: the inode of the directory that holds the entry, which
\* for a top-level entry is the snapshot directory.
NodeEntry_parent(tree, entry) ==
    LET p == ParentInoRec(tree.root, entry.node.ino)
    IN IF p = None \/ p[1] = tree.root.ino THEN snapshot_ino(tree) ELSE p[1]

\* ------------------------------------------------------- mod.rs: SnapshotsInos
Digits == <<"0", "1", "2", "3", "4", "5", "6", "7", "8", "9">>

TwoDigits(n) == Digits[(n \div 10) + 1] \o Digits[(n % 10) + 1]

\* strftime("%Y-%m-%d_%H-%M-%S") of a time of the first day of the epoch.
time_to_path(time) ==
    "1970-01-01_" \o TwoDigits((time \div 3600) % 24) \o "-"
        \o TwoDigits((time \div 60) % 60) \o "-" \o TwoDigits(time % 60)

\* paths: directory name -> ordinal of the snapshot (a later snapshot of the
\* same name replaces the earlier one, as HashMap::insert does).
SnapshotsInos_new(bk) ==
    [name \in { time_to_path(bk[i].time) : i \in 1..Len(bk) } |->
        (CHOOSE i \in 1..Len(bk) :
            /\ time_to_path(bk[i].time) = name
            /\ \A j \in 1..Len(bk) : time_to_path(bk[j].time) = name => j <= i) - 1]

SnapshotsInos_len(paths) == Cardinality(DOMAIN paths)

sid_from_path(paths, name) ==
    IF name \in DOMAIN paths THEN Some(paths[name]) ELSE None

\* assert!(ino >= 2) is the caller's obligation: see SidFromInoPanics.
sid_from_ino(ino) == ino - 2

SidFromInoPanics(ino) == ino < 2

ino_from_sid(sid) == sid + 2

SnapshotsInos_last_ino(paths) == ino_from_sid(SnapshotsInos_len(paths))

\* is_snapshot without its lower bound.
is_snapshot_FromZero(paths, ino) ==
    ino >= 0 /\ ino < ino_from_sid(SnapshotsInos_len(paths))

\* is_snapshot with the lower bound one too small.
is_snapshot_FromOne(paths, ino) ==
    ino >= 1 /\ ino < ino_from_sid(SnapshotsInos_len(paths))

is_snapshot(paths, ino) ==
    ino >= 2 /\ ino < ino_from_sid(SnapshotsInos_len(paths))

from_entry_type(et) ==
    CASE et \in {"File", "HardLink", "Unknown"} -> "RegularFile"
      [] et = "Dir" -> "Directory"
      [] et = "SymLink" -> "Symlink"
      [] et = "Fifo" -> "NamedPipe"

\* ------------------------------------------------------------------- state
VARIABLES
    backup,     \* Backup<B>: the snapshots, each [time, entries]; never changes
    paths,      \* RuplicityFs::snapshots (SnapshotsInos::paths)
    trees,      \* RuplicityFs::trees: one Option<SnapshotTree> per sid
    last_ino,   \* RuplicityFs::last_ino
    pc,         \* the session loop: "idle" (waiting) or "replied"
    req,        \* the request being served, None when idle
    reply,      \* what the handler did with its reply object
    walk,       \* a paged directory enumeration driven by the returned cookies
    tq          \* the tree functions applied on their own: input and results

vars == <<backup, paths, trees, last_ino, pc, req, reply, walk, tq>>

\* The fewest entries a reply buffer holds: "." and ".." are assumed to fit.
MinCap == 2
\* A handler makes at most this many calls into the backup library; the call
\* numbered failAt fails with an I/O error, 0 stands for none.
MaxFailAt == 4

Caps == MinCap..MaxCap

Offsets == 0..(MaxRecords + 1)

S == Len(backup)

\* The time of the snapshot with ordinal i: distinct, as duplicity's are.
SnapshotTime(i) == 40 + 25 * i

\* ------------------------------------------------------------------ replies
NoReply == [kind |-> "none"]

Panicked == [kind |-> "panic"]

ErrorReply(errno) == [kind |-> "error", errno |-> errno]

DirReply(buf) == [kind |-> "dir", entries |-> buf]

DirEntry(ino, offset, ftype, name) ==
    [ino |-> ino, offset |-> offset, ftype |-> ftype, name |-> name]

\* ReplyDirectory::add: TRUE (and nothing added) when the buffer is full.
ReplyAdd(buf, e, cap) ==
    IF Len(buf) >= cap THEN [full |-> TRUE, buf |-> buf]
    ELSE [full |-> FALSE, buf |-> Append(buf, e)]

attr_snapshot(ino) ==
    [ino |-> ino, size |-> 0, kind |-> "Directory", perm |-> "0o555",
     uid |-> 0, gid |-> 0]

attr_root == attr_snapshot(1)

attr_entry(entry, ino) ==
    [ino |-> ino, size |-> 0, kind |-> from_entry_type(entry.entry_type),
     perm |-> "0o777", uid |-> 100, gid |-> 100]

\* ------------------------------------------------------- mod.rs: RuplicityFs
\* The outcome of a handler: the registry it leaves and its reply.
Outcome(trs, li, rep) == [trees |-> trs, last_ino |-> li, reply |-> rep]

\* snapshot_from_sid as backup call number n of the request.
snapshot_from_sid_ok(sid, failAt, n) == failAt # n /\ sid < S

\* Every tree starts right after the snapshot block: last_ino is not read.
FirstInoFor_AfterSnapshots(li) == SnapshotsInos_last_ino(paths) + 1

\* The first inode taken from the number of snapshots, not from last_ino.
FirstInoFor_FromLen(li) == SnapshotsInos_len(paths) + 1

\* The tree starts at last_ino itself.
FirstInoFor_SameIno(li) == li

\* The first inode handed to SnapshotTree::new.
FirstInoFor(li) == li + 1

\* last_ino is left as it was.
NextLastIno_Stale(tree, li) == li

\* last_ino moved to the last inode of the whole tree, its root included.
NextLastIno_PastRoot(tree, li) == TreeNode_inodes(tree.root)[2]

\* "update the last ino": the last inode of the tree's children, if any.
NextLastIno(tree, li) ==
    LET rng == SnapshotTree_inodes(tree)
    IN IF rng # None THEN rng[1][2] ELSE li

\* tree_for_snapshot taking the tree's first inode before the signature
\* stream is opened, and keeping it taken when the stream fails to open.
tree_for_snapshot_DirtyFail(trs, li, sid, failAt, calls) ==
    IF trs[sid + 1] # None
    THEN [ok |-> snapshot_from_sid_ok(sid, failAt, calls + 1),
          trees |-> trs, last_ino |-> li, calls |-> calls + 1]
    ELSE IF ~snapshot_from_sid_ok(sid, failAt, calls + 1)
    THEN [ok |-> FALSE, trees |-> trs, last_ino |-> li, calls |-> calls + 2]
    ELSE IF failAt = calls + 2
    THEN [ok |-> FALSE, trees |-> trs, last_ino |-> li + 1, calls |-> calls + 2]
    ELSE LET tree == SnapshotTree_new(backup[sid + 1].entries,
                                      ino_from_sid(sid), FirstInoFor(li))
         IN [ok |-> snapshot_from_sid_ok(sid, failAt, calls + 3),
             trees |-> [trs EXCEPT ![sid + 1] = Some(tree)],
             last_ino |-> NextLastIno(tree, li), calls |-> calls + 3]

\* tree_for_snapshot; calls is the number of backup calls made before it.
RECURSIVE tree_for_snapshot(_, _, _, _, _)
tree_for_snapshot(trs, li, sid, failAt, calls) ==
    IF trs[sid + 1] # None
    THEN [ok |-> snapshot_from_sid_ok(sid, failAt, calls + 1),
          trees |-> trs, last_ino |-> li, calls |-> calls + 1]
    ELSE IF ~snapshot_from_sid_ok(sid, failAt, calls + 1) \/ failAt = calls + 2
         THEN [ok |-> FALSE, trees |-> trs, last_ino |-> li, calls |-> calls + 2]
         ELSE LET tree == SnapshotTree_new(backup[sid + 1].entries,
                                           ino_from_sid(sid), FirstInoFor(li))
              IN tree_for_snapshot([trs EXCEPT ![sid + 1] = Some(tree)],
                                   NextLastIno(tree, li),
                                   sid, failAt, calls + 2)

\* Whether a materialised tree answers for an inode.
TreeHasIno(tree, ino) ==
    \/ snapshot_ino(tree) = ino
    \/ LET rng == SnapshotTree_inodes(tree)
       IN rng # None /\ rng[1][1] <= ino /\ ino <= rng[1][2]

\* find_tree_with_ino: Some(<<tree, sid>>) for the first slot that matches.
find_tree_with_ino(trs, ino) ==
    LET hits == { i \in 1..Len(trs) : trs[i] # None /\ TreeHasIno(trs[i][1], ino) }
    IN IF hits = {} THEN None
       ELSE LET i == CHOOSE k \in hits : \A j \in hits : k <= j
            IN Some(<<trs[i][1], i - 1>>)

\* The cookie of the child before the one taken: one too small.
Cookie_OffByOne(n) == n + 1

\* "let offset = offset as u64 + 2": the cookie of the child at position n.
Cookie(n) == n + 2

\* The loop of readdir_snapshot and readdir_entry over
\* children.enumerate().skip(skipN): n counts the children taken so far.
RECURSIVE readdir_children(_, _, _, _, _)
readdir_children(it, n, skipN, buf, cap) ==
    LET nx == ChildrenIter_next(it)
    IN IF nx.panic THEN [panic |-> TRUE, buf |-> buf]
       ELSE IF ~nx.some THEN [panic |-> FALSE, buf |-> buf]
       ELSE IF n < skipN THEN readdir_children(nx.it, n + 1, skipN, buf, cap)
       ELSE LET path == PathEntry_path(nx.item)
            IN IF path.panic THEN [panic |-> TRUE, buf |-> buf]
               ELSE IF path.path = None
               THEN readdir_children(nx.it, n + 1, skipN, buf, cap)
               ELSE LET a == ReplyAdd(buf,
                                      DirEntry(PathEntry_ino(nx.item), Cookie(n),
                                               from_entry_type(nx.item.entry.entry_type),
                                               path.path[1]),
                                      cap)
                    IN IF a.full THEN [panic |-> FALSE, buf |-> a.buf]
                       ELSE readdir_children(nx.it, n + 1, skipN, a.buf, cap)

\* "." and ".." of a listing that starts at offset 0.
DotEntries(offset, ino, parent, cap) ==
    IF offset = 0
    THEN ReplyAdd(ReplyAdd(<<>>, DirEntry(ino, 0, "Directory", "."), cap).buf,
                  DirEntry(parent, 1, "Directory", ".."), cap).buf
    ELSE <<>>

\* offset after the "if offset == 0 { ...; offset += 1 }" block
AfterDots(offset) == IF offset = 0 THEN 1 ELSE offset

\* readdir_root's loop with "offset += 1" after the add instead of before it.
RECURSIVE readdir_root_loop_StaleOffset(_, _, _, _)
readdir_root_loop_StaleOffset(k, offset, buf, cap) ==
    IF k > S THEN buf
    ELSE LET a == ReplyAdd(buf,
                           DirEntry(offset, offset, "Directory",
                                    time_to_path(backup[k].time)),
                           cap)
         IN IF a.full THEN a.buf
            ELSE readdir_root_loop_StaleOffset(k + 1, offset + 1, a.buf, cap)

\* The loop of readdir_root over snapshots.skip(offset - 1): k is the ordinal
\* (1-based) of the next snapshot, offset the last offset given out.
RECURSIVE readdir_root_loop(_, _, _, _)
readdir_root_loop(k, offset, buf, cap) ==
    IF k > S THEN buf
    ELSE LET a == ReplyAdd(buf,
                           DirEntry(offset + 1, offset + 1, "Directory",
                                    time_to_path(backup[k].time)),
                           cap)
         IN IF a.full THEN a.buf
            ELSE readdir_root_loop(k + 1, offset + 1, a.buf, cap)

readdir_root(trs, li, offset, cap, failAt) ==
    LET buf == DotEntries(offset, 1, 1, cap)
        off == AfterDots(offset)
    IN IF failAt = 1 THEN Outcome(trs, li, NoReply)
       ELSE Outcome(trs, li, DirReply(readdir_root_loop(off, off, buf, cap)))

readdir_snapshot(trs, li, ino, offset, cap, failAt) ==
    LET buf == DotEntries(offset, ino, 1, cap)
        off == AfterDots(offset)
        sid == sid_from_ino(ino)
        t   == tree_for_snapshot(trs, li, sid, failAt, 0)
    IN IF SidFromInoPanics(ino) THEN Outcome(trs, li, Panicked)
       ELSE IF ~t.ok \/ failAt = t.calls + 1
       THEN Outcome(t.trees, t.last_ino, NoReply)
       ELSE LET it == SnapshotTree_children(t.trees[sid + 1][1], backup[sid + 1].entries)
                r  == readdir_children(it, 0, off - 1, buf, cap)
            IN IF it.panic \/ r.panic
               THEN Outcome(t.trees, t.last_ino, Panicked)
               ELSE Outcome(t.trees, t.last_ino, DirReply(r.buf))

readdir_entry(trs, li, ino, offset, cap, failAt) ==
    LET found == find_tree_with_ino(trs, ino)
    IN IF found = None THEN Outcome(trs, li, ErrorReply("ENOENT"))
       ELSE LET tree == found[1][1]
                sid  == found[1][2]
                parent_entry == find_node(tree, ino)
            IN IF parent_entry = None THEN Outcome(trs, li, ErrorReply("ENOENT"))
               ELSE LET buf == DotEntries(offset, ino,
                                          NodeEntry_parent(tree, parent_entry[1]), cap)
                        off == AfterDots(offset)
                    IN IF ~snapshot_from_sid_ok(sid, failAt, 1) \/ failAt = 2
                       THEN Outcome(trs, li, NoReply)
                       ELSE LET it == NodeEntry_children(parent_entry[1],
                                                         backup[sid + 1].entries)
                                r  == readdir_children(it, 0, off - 1, buf, cap)
                            IN IF it.panic \/ r.panic
                               THEN Outcome(trs, li, Panicked)
                               ELSE Outcome(trs, li, DirReply(r.buf))

\* Filesystem::readdir
readdir(trs, li, ino, offset, cap, failAt) ==
    IF ino = 1 THEN readdir_root(trs, li, offset, cap, failAt)
    ELSE IF is_snapshot(paths, ino)
    THEN readdir_snapshot(trs, li, ino, offset, cap, failAt)
    ELSE readdir_entry(trs, li, ino, offset, cap, failAt)

AttrReply(attr) == [kind |-> "attr", attr |-> attr]

EntryReply(attr) == [kind |-> "entry", attr |-> attr]

DataReply(bytes) == [kind |-> "data", bytes |-> bytes]

\* path2bytes on unix: the bytes of the path as they are stored.
path2bytes(p) == p

\* children.find(|entry| entry.path() == Some(name)): the first match.
RECURSIVE find_child_by_name(_, _)
find_child_by_name(it, name) ==
    LET nx == ChildrenIter_next(it)
    IN IF nx.panic THEN [panic |-> TRUE, entry |-> None]
       ELSE IF ~nx.some THEN [panic |-> FALSE, entry |-> None]
       ELSE LET path == PathEntry_path(nx.item)
            IN IF path.panic THEN [panic |-> TRUE, entry |-> None]
               ELSE IF path.path # None /\ path.path[1] = name
               THEN [panic |-> FALSE, entry |-> Some(nx.item)]
               ELSE find_child_by_name(nx.it, name)

\* lookup_snapshot answering with the sid where the inode is due.
lookup_snapshot_SidAsIno(trs, li, name, failAt) ==
    LET sid == sid_from_path(paths, name)
    IN IF sid = None THEN Outcome(trs, li, ErrorReply("ENOENT"))
       ELSE IF ~snapshot_from_sid_ok(sid[1], failAt, 1)
       THEN Outcome(trs, li, NoReply)
       ELSE Outcome(trs, li, EntryReply(attr_snapshot(sid[1])))

lookup_snapshot(trs, li, name, failAt) ==
    LET sid == sid_from_path(paths, name)
    IN IF sid = None THEN Outcome(trs, li, ErrorReply("ENOENT"))
       ELSE IF ~snapshot_from_sid_ok(sid[1], failAt, 1)
       THEN Outcome(trs, li, NoReply)
       ELSE Outcome(trs, li, EntryReply(attr_snapshot(ino_from_sid(sid[1]))))

lookup_entry(trs, li, parent, name, failAt) ==
    LET found == find_tree_with_ino(trs, parent)
    IN IF found = None THEN Outcome(trs, li, ErrorReply("ENOENT"))
       ELSE LET tree == found[1][1]
                sid  == found[1][2]
                parent_entry == find_node(tree, parent)
            IN IF parent_entry = None THEN Outcome(trs, li, ErrorReply("ENOENT"))
               ELSE IF ~snapshot_from_sid_ok(sid, failAt, 1) \/ failAt = 2
               THEN Outcome(trs, li, NoReply)
               ELSE LET it == NodeEntry_children(parent_entry[1],
                                                 backup[sid + 1].entries)
                        r  == find_child_by_name(it, name)
                    IN IF it.panic \/ r.panic THEN Outcome(trs, li, Panicked)
                       ELSE IF r.entry = None
                       THEN Outcome(trs, li, ErrorReply("ENOENT"))
                       ELSE Outcome(trs, li,
                                    EntryReply(attr_entry(r.entry[1].entry,
                                                          PathEntry_ino(r.entry[1]))))

\* Filesystem::lookup
lookup(trs, li, parent, name, failAt) ==
    IF parent = 1 THEN lookup_snapshot(trs, li, name, failAt)
    ELSE lookup_entry(trs, li, parent, name, failAt)

\* getattr_snapshot taking an inode from the allocator for its reply.
getattr_snapshot_Allocates(trs, li, ino, failAt) ==
    IF SidFromInoPanics(ino) THEN Outcome(trs, li, Panicked)
    ELSE IF ~snapshot_from_sid_ok(sid_from_ino(ino), failAt, 1)
    THEN Outcome(trs, li, NoReply)
    ELSE Outcome(trs, li + 1, AttrReply(attr_snapshot(ino)))

getattr_snapshot(trs, li, ino, failAt) ==
    IF SidFromInoPanics(ino) THEN Outcome(trs, li, Panicked)
    ELSE IF ~snapshot_from_sid_ok(sid_from_ino(ino), failAt, 1)
    THEN Outcome(trs, li, NoReply)
    ELSE Outcome(trs, li, AttrReply(attr_snapshot(ino)))

getattr_entry(trs, li, ino, failAt) ==
    LET found == find_tree_with_ino(trs, ino)
    IN IF found = None THEN Outcome(trs, li, ErrorReply("ENOENT"))
       ELSE LET tree  == found[1][1]
                sid   == found[1][2]
                entry == find_node(tree, ino)
            IN IF entry = None THEN Outcome(trs, li, ErrorReply("ENOENT"))
               ELSE IF ~snapshot_from_sid_ok(sid, failAt, 1) \/ failAt = 2
               THEN Outcome(trs, li, NoReply)
               ELSE LET pe == NodeEntry_as_path_entry(entry[1], backup[sid + 1].entries)
                    IN Outcome(trs, li, AttrReply(attr_entry(pe.entry, ino)))

\* Filesystem::getattr
getattr(trs, li, ino, failAt) ==
    IF ino = 1 THEN Outcome(trs, li, AttrReply(attr_root))
    ELSE IF is_snapshot(paths, ino) THEN getattr_snapshot(trs, li, ino, failAt)
    ELSE getattr_entry(trs, li, ino, failAt)

\* Filesystem::readlink
readlink_entry(trs, li, ino, failAt) ==
    LET found == find_tree_with_ino(trs, ino)
    IN IF found = None THEN Outcome(trs, li, ErrorReply("ENOENT"))
       ELSE LET tree  == found[1][1]
                sid   == found[1][2]
                entry == find_node(tree, ino)
            IN IF entry = None THEN Outcome(trs, li, ErrorReply("ENOENT"))
               ELSE IF ~snapshot_from_sid_ok(sid, failAt, 1) \/ failAt = 2
               THEN Outcome(trs, li, NoReply)
               ELSE LET pe == NodeEntry_as_path_entry(entry[1], backup[sid + 1].entries)
                    IN IF pe.entry.linked_path # None
                       THEN Outcome(trs, li, DataReply(path2bytes(pe.entry.linked_path[1])))
                       ELSE Outcome(trs, li, ErrorReply("ENOSYS"))

\* -------------------------------------------------------------- the machine
NoReq == [op |-> "none", ino |-> 0, offset |-> 0, cap |-> 0, name |-> ""]

Req(op, ino, offset, cap, name) ==
    [op |-> op, ino |-> ino, offset |-> offset, cap |-> cap, name |-> name]

NoWalk == [status |-> "idle", dir |-> 0, cap |-> 0, listing |-> <<>>, cookie |-> 0]

NoT == [phase |-> "none", entries |-> <<>>, first_ino |-> 0, tree |-> None,
        ino |-> 0, found |-> None, at |-> None,
        items |-> [panic |-> FALSE, items |-> <<>>]]

\* The inodes a request may carry: every one given out so far and some beyond.
Inos == 0..(last_ino + 2)

\* The names a lookup may carry: entry names, snapshot names, an unknown one.
LookupNames ==
    { NameOf(i) : i \in 1..MaxRecords } \cup DOMAIN paths \cup {"nope"}

\* RuplicityFs::new on a backup of up to MaxSnapshots snapshots.
Init ==
    /\ \E n \in 0..MaxSnapshots :
         \E streams \in [1..n -> Streams(MaxRecords)] :
            backup = [i \in 1..n |->
                        [time |-> SnapshotTime(i - 1), entries |-> streams[i]]]
    /\ paths = SnapshotsInos_new(backup)
    /\ last_ino = SnapshotsInos_last_ino(paths)
    /\ trees = [i \in 1..SnapshotsInos_len(paths) |-> None]
    /\ pc = "idle"
    /\ req = NoReq
    /\ reply = NoReply
    /\ walk = NoWalk
    /\ tq = NoT

\* The handler has run: the registry it left, its reply; a panic ends the
\* session.
Served(r, out) ==
    /\ trees' = out.trees
    /\ last_ino' = out.last_ino
    /\ reply' = out.reply
    /\ req' = r
    /\ pc' = IF out.reply = Panicked THEN "crashed" ELSE "replied"
    /\ UNCHANGED <<backup, paths, walk, tq>>

Getattr ==
    /\ pc = "idle"
    /\ \E ino \in Inos, failAt \in 0..2 :
         Served(Req("getattr", ino, 0, 0, ""), getattr(trees, last_ino, ino, failAt))

Readdir ==
    /\ pc = "idle"
    /\ \E ino \in Inos, offset \in Offsets, cap \in Caps, failAt \in 0..MaxFailAt :
         Served(Req("readdir", ino, offset, cap, ""),
                readdir(trees, last_ino, ino, offset, cap, failAt))

Lookup ==
    /\ pc = "idle"
    /\ \E parent \in Inos, name \in LookupNames, failAt \in 0..2 :
         Served(Req("lookup", parent, 0, 0, name),
                lookup(trees, last_ino, parent, name, failAt))

Readlink ==
    /\ pc = "idle"
    /\ \E ino \in Inos, failAt \in 0..2 :
         Served(Req("readlink", ino, 0, 0, ""),
                readlink_entry(trees, last_ino, ino, failAt))

\* The session loop: the reply is out, the next request is awaited.
SessionNext ==
    /\ pc = "replied"
    /\ pc' = "idle"
    /\ req' = NoReq
    /\ reply' = NoReply
    /\ UNCHANGED <<backup, paths, trees, last_ino, walk, tq>>

Next == Getattr \/ Readdir \/ Lookup \/ Readlink \/ SessionNext

Spec == Init /\ [][Next]_vars

\* ------------------------------------------ a paged enumeration of a directory
\* The directories a walk may be started on: the root, the snapshot
\* directories, and the directory entries of the materialised trees.
RECURSIVE NodesOf(_)
NodesOf(node) ==
    {node} \cup UNION { NodesOf(node.children[i]) : i \in 1..Len(node.children) }

\* The nodes of a tree below its root: the entries of the snapshot.
EntryNodes(tree) == NodesOf(tree.root) \ {tree.root}

DirEntryInos ==
    UNION { { n.ino : n \in { m \in EntryNodes(trees[i][1]) :
                                backup[i].entries[m.index + 1].entry_type = "Dir" } }
            : i \in { k \in 1..Len(trees) : trees[k] # None } }

WalkDirs == {1} \cup { ino_from_sid(sid) : sid \in 0..(S - 1) } \cup DirEntryInos

\* The walk after a page: its entries are appended and its last cookie kept;
\* a page that adds nothing ends the walk.
WalkAfter(w, rep) ==
    CASE rep.kind = "dir" ->
            IF rep.entries = <<>> THEN [w EXCEPT !.status = "done"]
            ELSE [w EXCEPT !.status = "open",
                           !.listing = w.listing \o rep.entries,
                           !.cookie = Last(rep.entries).offset]
      [] rep.kind = "error" -> [w EXCEPT !.status = "error"]
      [] rep.kind = "none" -> [w EXCEPT !.status = "lost"]
      [] OTHER -> [w EXCEPT !.status = "panic"]

WalkStart ==
    /\ walk.status = "idle"
    /\ \E dir \in WalkDirs, cap \in Caps, failAt \in 0..MaxFailAt :
         LET out == readdir(trees, last_ino, dir, 0, cap, failAt)
         IN /\ trees' = out.trees
            /\ last_ino' = out.last_ino
            /\ walk' = WalkAfter([status |-> "open", dir |-> dir, cap |-> cap,
                                  listing |-> <<>>, cookie |-> 0], out.reply)
    /\ UNCHANGED <<backup, paths, pc, req, reply, tq>>

WalkStep ==
    /\ walk.status = "open"
    /\ \E failAt \in 0..MaxFailAt :
         LET out == readdir(trees, last_ino, walk.dir, walk.cookie, walk.cap, failAt)
         IN /\ trees' = out.trees
            /\ last_ino' = out.last_ino
            /\ walk' = WalkAfter(walk, out.reply)
    /\ UNCHANGED <<backup, paths, pc, req, reply, tq>>

\* Another request served between two pages of the walk: a readdir of a
\* snapshot directory, the one request that can change the registry.
WalkOther ==
    /\ walk.status # "panic"
    /\ \E sid \in 0..(S - 1), failAt \in 0..MaxFailAt :
         LET out == readdir(trees, last_ino, ino_from_sid(sid), 0, MinCap, failAt)
         IN /\ trees' = out.trees
            /\ last_ino' = out.last_ino
    /\ UNCHANGED <<backup, paths, pc, req, reply, walk, tq>>

\* The directory stream is released once the walk has ended.
WalkClose ==
    /\ walk.status \in {"done", "error", "lost"}
    /\ walk' = NoWalk
    /\ UNCHANGED <<backup, paths, trees, last_ino, pc, req, reply, tq>>

WalkNext == WalkStart \/ WalkStep \/ WalkOther \/ WalkClose

SpecWalk == Init /\ [][WalkNext]_vars

\* ------------------------------------------ the tree functions on their own
FirstInos == 3..(3 + MaxFirstInoSpan)

\* The registry of a filesystem without snapshots, and a stream and a first
\* inode for SnapshotTree::new.
TreeInit ==
    /\ backup = <<>>
    /\ paths = SnapshotsInos_new(backup)
    /\ last_ino = SnapshotsInos_last_ino(paths)
    /\ trees = <<>>
    /\ pc = "idle"
    /\ req = NoReq
    /\ reply = NoReply
    /\ walk = NoWalk
    /\ \E entries \in Streams(MaxTreeRecords), first_ino \in FirstInos :
         tq = [NoT EXCEPT !.phase = "input", !.entries = entries,
                         !.first_ino = first_ino]

TreeBuild ==
    /\ tq.phase = "input"
    /\ tq' = [tq EXCEPT !.phase = "built",
                      !.tree = Some(SnapshotTree_new(tq.entries, 2, tq.first_ino))]
    /\ UNCHANGED <<backup, paths, trees, last_ino, pc, req, reply, walk>>

TreeFindNode ==
    /\ tq.phase \in {"built", "found"}
    /\ \E ino \in 0..(tq.first_ino + Len(tq.entries) + 1) :
         tq' = [tq EXCEPT !.phase = "found", !.ino = ino,
                        !.found = find_node(tq.tree[1], ino)]
    /\ UNCHANGED <<backup, paths, trees, last_ino, pc, req, reply, walk>>

\* The NodeEntry of every node of a subtree: the node with its depth.
RECURSIVE EntriesBelow(_, _)
EntriesBelow(node, depth) ==
    {[node |-> node, depth |-> depth]}
       \cup UNION { EntriesBelow(node.children[i], depth + 1) :
                     i \in 1..Len(node.children) }

\* A children iterator run to its end: the PathEntry items in the order
\* next() yields them, each with what path() gives for it.
RECURSIVE CollectItems(_, _)
CollectItems(it, acc) ==
    LET nx == ChildrenIter_next(it)
    IN IF it.panic \/ nx.panic THEN [panic |-> TRUE, items |-> acc]
       ELSE IF ~nx.some THEN [panic |-> FALSE, items |-> acc]
       ELSE CollectItems(nx.it,
                         Append(acc, [node  |-> nx.item.node,
                                      entry |-> nx.item.entry,
                                      ino   |-> PathEntry_ino(nx.item),
                                      name  |-> PathEntry_path(nx.item)]))

\* NodeEntry::children of a node of the built tree (SnapshotTree::children
\* is the same iterator over the root, at depth 0), iterated to its end.
TreeIterate ==
    /\ tq.phase \in {"built", "found", "iterated"}
    /\ \E e \in EntriesBelow(tq.tree[1].root, 0) :
         tq' = [tq EXCEPT !.phase = "iterated", !.at = Some(e),
                        !.items = CollectItems(NodeEntry_children(e, tq.entries),
                                               <<>>)]
    /\ UNCHANGED <<backup, paths, trees, last_ino, pc, req, reply, walk>>

TreeNext == TreeBuild \/ TreeFindNode \/ TreeIterate

SpecTree == TreeInit /\ [][TreeNext]_vars

\* =================================================================== claims
\* Notions the properties are stated with; none of them is used by the model
\* of the code above.
MaterialisedSids == { sid \in 0..(Len(trees) - 1) : trees[sid + 1] # None }

TreeOf(sid) == trees[sid + 1][1]

NodeInos(node) == { n.ino : n \in NodesOf(node) }

RECURSIVE NodeCount(_)
NodeCount(node) ==
    LET RECURSIVE Sum(_)
        Sum(k) == IF k = 0 THEN 0 ELSE NodeCount(node.children[k]) + Sum(k - 1)
    IN 1 + Sum(Len(node.children))

\* C1: for every inode held by a node of a materialised tree, find_node
\* returns a node, and that node has the inode; for the tree of records
\* [root, a, a/b, a/b/c, d] built with first inode 3, find_node(6) is the
\* node of c, at depth 3.
C1_FindNodeTotal ==
    (tq.phase = "found" /\ tq.ino \in NodeInos(tq.tree[1].root))
        => /\ tq.found # None
           /\ tq.found[1].node.ino = tq.ino
           /\ (tq.entries = ExampleStream /\ tq.first_ino = 3 /\ tq.ino = 6)
                 => (tq.found[1].depth = 3 /\ tq.found[1].node.index = 3)

\* C2: the inode intervals inodes() of any two different materialised trees
\* are disjoint, in every state any sequence of requests reaches.
C2_TreesDisjoint ==
    \A i \in MaterialisedSids : \A j \in MaterialisedSids \ {i} :
        LET a == SnapshotTree_inodes(TreeOf(i))
            b == SnapshotTree_inodes(TreeOf(j))
        IN (a # None /\ b # None)
              => (a[1][2] < b[1][1] \/ b[1][2] < a[1][1])

\* two trees with children are materialised, the second built after the first
C2_Witness ==
    \E i \in MaterialisedSids : \E j \in MaterialisedSids \ {i} :
        /\ SnapshotTree_inodes(TreeOf(i)) # None
        /\ SnapshotTree_inodes(TreeOf(j)) # None
        /\ Len(TreeOf(j).root.children) >= 2

\* C3: in a tree built from a well-formed depth-first stream, the inodes of
\* the subtree of every node N are exactly the interval from N.ino to the last
\* inode of inodes(N), and the inode ranges of N's children, in child order,
\* are adjacent: each starts one past the end of the one before (so they are
\* strictly increasing and do not overlap), the first one past N.ino.
C3_SubtreeContiguous ==
    tq.tree # None =>
        \A n \in NodesOf(tq.tree[1].root) :
            /\ NodeInos(n) = (n.ino)..(TreeNode_inodes(n)[2])
            /\ Cardinality(NodeInos(n)) = NodeCount(n)
            /\ \A k \in 1..Len(n.children) :
                  /\ TreeNode_inodes(n.children[k])[1] <= TreeNode_inodes(n.children[k])[2]
                  /\ TreeNode_inodes(n.children[k])[1] =
                        IF k = 1 THEN n.ino + 1
                        ELSE TreeNode_inodes(n.children[k - 1])[2] + 1

\* the tree of [root, a, a/b, a/b/c, d] is built: a node with two children,
\* the first of them with a subtree of three inodes
C3_Witness ==
    /\ tq.phase = "built"
    /\ tq.entries = ExampleStream
    /\ Len(tq.tree[1].root.children) = 2
    /\ TreeNode_inodes(tq.tree[1].root.children[1]) = <<tq.first_ino + 1, tq.first_ino + 3>>

\* The entries of the materialised trees that hold an inode, as <<sid, node>>,
\* by exhaustive search.
Owners(trs, ino) ==
    UNION { { <<i - 1, n>> : n \in { m \in EntryNodes(trs[i][1]) : m.ino = ino } }
            : i \in { k \in 1..Len(trs) : trs[k] # None } }

\* The listing of a sequence of child nodes: each with its inode, the cookie
\* of its position, its kind and the last component of its record's path.
ListingOf(children, entries) ==
    [k \in 1..Len(children) |->
        DirEntry(children[k].ino, k + 1,
                 from_entry_type(entries[children[k].index + 1].entry_type),
                 Last(entries[children[k].index + 1].path))]

\* The children of directory dir, in tree order: the snapshots under the
\* root, the top level of a snapshot's tree, the children of an entry's node.
ExpectedChildren(dir) ==
    IF dir = 1
    THEN [k \in 1..S |-> DirEntry(k + 1, k + 1, "Directory",
                                  time_to_path(backup[k].time))]
    ELSE IF dir \in 2..(S + 1)
    THEN IF trees[dir - 1] = None THEN <<>>
         ELSE ListingOf(TreeOf(dir - 2).root.children, backup[dir - 1].entries)
    ELSE IF Owners(trees, dir) = {} THEN <<>>
         ELSE LET o == CHOOSE x \in Owners(trees, dir) : TRUE
              IN ListingOf(o[2].children, backup[o[1] + 1].entries)

Prefix(seq, n) == SubSeq(seq, 1, Min(Max(n, 0), Len(seq)))

Suffix(seq, from) == SubSeq(seq, from, Len(seq))

\* C4: for any directory (root, snapshot directory, directory entry) and any
\* capacity of two entries or more, readdir at 0 and then at the last cookie
\* returned, until a page adds nothing, yields "." and ".." and then exactly
\* the children of the directory's node, each once, in tree order.
C4_WalkListsChildren ==
    walk.status \in {"done", "error"} =>
        /\ walk.status = "done"
        /\ Len(walk.listing) >= 2
        /\ walk.listing[1].name = "."
        /\ walk.listing[2].name = ".."
        /\ [k \in 1..(Len(walk.listing) - 2) |->
               [ino |-> walk.listing[k + 2].ino, name |-> walk.listing[k + 2].name]]
           = [k \in 1..Len(ExpectedChildren(walk.dir)) |->
               [ino |-> ExpectedChildren(walk.dir)[k].ino,
                name |-> ExpectedChildren(walk.dir)[k].name]]

\* C5 as stated: in a snapshot or entry directory, readdir at a cookie c >= 1
\* emits exactly the children at positions greater than c - 2, the whole
\* suffix of the listing after c, each child i with cookie i + 2.
C5_PageIsWholeSuffix ==
    (/\ pc = "replied" /\ req.op = "readdir" /\ req.ino # 1
     /\ reply.kind = "dir" /\ req.offset >= 1)
        => reply.entries = Suffix(ExpectedChildren(req.ino), req.offset)

\* C5 (amended): in a snapshot or entry directory the child at position i is
\* always emitted with cookie i + 2, and readdir at a cookie c >= 1 emits the
\* children at positions greater than c - 2 in order, without a gap or a
\* repetition, up to the capacity of the reply buffer: the whole suffix of
\* the listing after c when it fits, else its first cap entries.  At cookie 0
\* the page is "." and ".." and then the children that still fit.
C5_PageStartsAfterCookie ==
    (pc = "replied" /\ req.op = "readdir" /\ req.ino # 1 /\ reply.kind = "dir")
        => /\ req.offset >= 1 =>
                reply.entries =
                    Prefix(Suffix(ExpectedChildren(req.ino), req.offset), req.cap)
           /\ req.offset = 0 =>
                /\ Len(reply.entries) >= 2
                /\ SubSeq(reply.entries, 3, Len(reply.entries)) =
                      Prefix(ExpectedChildren(req.ino), req.cap - 2)
           /\ \A k \in 1..Len(reply.entries) :
                 reply.entries[k].offset >= 2 =>
                    /\ reply.entries[k].offset - 2 < Len(ExpectedChildren(req.ino))
                    /\ reply.entries[k] =
                          ExpectedChildren(req.ino)[reply.entries[k].offset - 2 + 1]

\* a listing resumed in its middle: the page starts at the child after the
\* cookie and the buffer cuts it before the end of the listing
C5_Witness ==
    /\ pc = "replied" /\ req.op = "readdir" /\ req.ino # 1 /\ reply.kind = "dir"
    /\ req.offset >= 2
    /\ reply.entries # <<>>
    /\ reply.entries[1].offset = req.offset + 1
    /\ Len(ExpectedChildren(req.ino)) >= 3

\* C6: readdir of the root at offset 0 emits "." (ino 1, cookie 0), ".."
\* (ino 1, cookie 1) and then the snapshots in enumeration order; at every
\* offset the snapshot with sid s carries inode s + 2 and cookie s + 2, the
\* inode ino_from_sid(s) and lookup(1, name) give; an offset c >= 1 skips
\* the first c - 1 snapshots; without snapshots the listing is "." and "..".
C6_RootListing ==
    (pc = "replied" /\ req.op = "readdir" /\ req.ino = 1 /\ reply.kind = "dir")
        => LET dots  == << DirEntry(1, 0, "Directory", "."),
                           DirEntry(1, 1, "Directory", "..") >>
               snaps == [k \in 1..S |->
                           DirEntry((k - 1) + 2, (k - 1) + 2, "Directory",
                                    time_to_path(backup[k].time))]
           IN /\ req.offset = 0 => reply.entries = Prefix(dots \o snaps, req.cap)
              /\ req.offset >= 1 =>
                    reply.entries = Prefix(Suffix(snaps, (req.offset - 1) + 1), req.cap)
              /\ (S = 0 /\ req.offset = 0) => reply.entries = dots
              /\ \A k \in 1..Len(reply.entries) :
                    reply.entries[k].offset >= 2 =>
                       LET e == reply.entries[k]
                           l == lookup(trees, last_ino, 1, e.name, 0).reply
                       IN /\ e.ino = ino_from_sid(e.offset - 2)
                          /\ sid_from_path(paths, e.name) = Some(e.offset - 2)
                          /\ l.kind = "entry" /\ l.attr.ino = e.ino
                          /\ is_snapshot(paths, e.ino)

\* the root listing resumed after the first snapshot emits the second one
C6_Witness ==
    /\ pc = "replied" /\ req.op = "readdir" /\ req.ino = 1 /\ reply.kind = "dir"
    /\ req.offset = 2
    /\ S = 2
    /\ Len(reply.entries) = 1
    /\ reply.entries[1].ino = 3

\* The (sid, stream index) an inode resolves to through find_tree_with_ino
\* and find_node.
Resolve(trs, ino) ==
    LET f == find_tree_with_ino(trs, ino)
    IN IF f = None THEN None
       ELSE LET n == find_node(f[1][1], ino)
            IN IF n = None THEN None
               ELSE Some(<<f[1][2], n[1].node.index>>)

\* The inodes held by the nodes of the materialised trees.
AssignedInos(trs) ==
    UNION { NodeInos(trs[i][1].root) : i \in { k \in 1..Len(trs) : trs[k] # None } }

\* The (sid, stream index) of the entries that hold an inode.
OwnerIndexes(trs, ino) == { <<o[1], o[2].index>> : o \in Owners(trs, ino) }

\* C7: across any sequence of requests a materialised tree slot is never
\* cleared, replaced or modified, last_ino never decreases, an inode that
\* resolves to a (sid, stream index) resolves to the same one in the next
\* state, and an inode held by an entry is never given to another entry.
C7_InodeStability ==
    [][ \/ (trees' = trees /\ last_ino' = last_ino)
        \/ /\ \A i \in 1..Len(trees) : trees[i] # None => trees'[i] = trees[i]
           /\ Len(trees') = Len(trees)
           /\ last_ino' >= last_ino
           /\ \A ino \in AssignedInos(trees) :
                 /\ Resolve(trees, ino) # None =>
                       Resolve(trees', ino) = Resolve(trees, ino)
                 /\ OwnerIndexes(trees, ino) # {} =>
                       OwnerIndexes(trees', ino) = OwnerIndexes(trees, ino)
      ]_vars

\* two trees are materialised, one built after the other, and an inode of the
\* earlier tree still resolves to its entry
C7_Witness ==
    \E i \in MaterialisedSids : \E j \in MaterialisedSids :
        /\ TreeOf(i).root.ino < TreeOf(j).root.ino
        /\ TreeOf(j).root.children # <<>>
        /\ \E ino \in NodeInos(TreeOf(i).root) :
              /\ Resolve(trees, ino) # None
              /\ Resolve(trees, ino)[1][1] = i
              /\ Resolve(trees, ino)[1][2] >= 1

\* C8: once the trees of all snapshots are materialised, in any order, and
\* also when a snapshot holds only the root record, no inode is assigned
\* twice among the nodes of all trees (dummy roots included), the root
\* inode 1 and the snapshot inodes 2..S+1.
C8_NoDuplicateInodes ==
    (S >= 1 /\ MaterialisedSids = 0..(S - 1))
        => /\ \A i \in MaterialisedSids :
                /\ Cardinality(NodeInos(TreeOf(i).root)) = NodeCount(TreeOf(i).root)
                /\ NodeInos(TreeOf(i).root) \cap (1..(S + 1)) = {}
           /\ \A i \in MaterialisedSids : \A j \in MaterialisedSids \ {i} :
                NodeInos(TreeOf(i).root) \cap NodeInos(TreeOf(j).root) = {}

\* The largest inode of a non-empty set.
MaxOf(set) == CHOOSE m \in set : \A x \in set : x <= m

\* C9: a successful tree_for_snapshot, as readdir of a snapshot directory
\* makes it: with the slot already materialised every slot and last_ino are
\* unchanged; with the slot absent the tree is built from last_ino + 1, is
\* stored in slot sid only, and last_ino becomes the largest child inode of
\* the tree if it has children and is unchanged if it has none.
C9_EnsureIdempotent ==
    [][ (/\ pc = "idle" /\ pc' = "replied" /\ req'.op = "readdir"
         /\ is_snapshot(paths, req'.ino) /\ reply'.kind = "dir")
           => LET slot == sid_from_ino(req'.ino) + 1
              IN IF trees[slot] # None
                 THEN trees' = trees /\ last_ino' = last_ino
                 ELSE /\ trees'[slot] # None
                      /\ \A j \in (1..Len(trees)) \ {slot} : trees'[j] = trees[j]
                      /\ LET root == trees'[slot][1].root
                             kids == NodeInos(root) \ {root.ino}
                         IN /\ root.ino = last_ino + 1
                            /\ root.index = 0
                            /\ kids # {} => /\ \A k \in kids : k > last_ino + 1
                                            /\ last_ino' = MaxOf(kids)
                            /\ kids = {} => last_ino' = last_ino
      ]_vars

\* a snapshot directory is listed again after a later tree was built: its
\* slot was already materialised when the request came
C9_Witness ==
    /\ pc = "replied" /\ req.op = "readdir" /\ reply.kind = "dir"
    /\ is_snapshot(paths, req.ino)
    /\ \E j \in MaterialisedSids :
          /\ TreeOf(j).root.ino > TreeOf(req.ino - 2).root.ino
          /\ TreeOf(j).root.children # <<>>
          /\ TreeOf(req.ino - 2).root.children # <<>>

\* The names of the children of directory dir: of the top-level records of a
\* snapshot, of the children of the node of a directory entry.
ChildNames(dir) ==
    IF dir \in 2..(S + 1)
    THEN { Last(backup[dir - 1].entries[k].path) :
             k \in { i \in 1..Len(backup[dir - 1].entries) :
                        Len(backup[dir - 1].entries[i].path) = 1 } }
    ELSE { ExpectedChildren(dir)[k].name : k \in 1..Len(ExpectedChildren(dir)) }

\* C10: lookup(parent, name) with parent # 1 and no I/O failure: when parent
\* is the inode of a snapshot directory or of a directory entry and a child
\* of the parent has the name, the reply carries the attributes and inode of
\* the first such child; otherwise the reply is ENOENT.
C10_LookupFindsChild ==
    (/\ pc = "replied" /\ req.op = "lookup" /\ req.ino # 1
     /\ reply.kind \in {"entry", "error"})
        => IF /\ req.ino \in 2..(S + 1) \/ Owners(trees, req.ino) # {}
              /\ req.name \in ChildNames(req.ino)
           THEN /\ reply.kind = "entry"
                /\ \E k \in 1..Len(ExpectedChildren(req.ino)) :
                      /\ ExpectedChildren(req.ino)[k].name = req.name
                      /\ \A h \in 1..(k - 1) :
                            ExpectedChildren(req.ino)[h].name # req.name
                      /\ reply.attr.ino = ExpectedChildren(req.ino)[k].ino
           ELSE reply = ErrorReply("ENOENT")

\* The largest inode assigned so far: the root, the snapshot block and the
\* nodes of the materialised trees.
LargestAssigned == MaxOf({1} \cup (2..(S + 1)) \cup AssignedInos(trees))

\* C11: getattr on inode 0, or on an inode greater than every assigned
\* inode, replies ENOSYS; ENOENT only answers an inode that lies in a known
\* range (an inode of a materialised tree) whose node or record is not found.
C11_GetattrOutsideIsENOSYS ==
    (pc = "replied" /\ req.op = "getattr" /\ reply.kind # "none")
        => /\ (req.ino = 0 \/ req.ino > LargestAssigned)
                 => reply = ErrorReply("ENOSYS")
           /\ reply = ErrorReply("ENOENT")
                 => (req.ino # 0 /\ req.ino <= LargestAssigned)

\* The directory names of the snapshots, in enumeration order.
SnapshotNames == [k \in 1..S |-> time_to_path(backup[k].time)]

C13_ReadlinkOfEntry ==
    (pc = "replied" /\ req.op = "readlink" /\ reply.kind # "none")
        => IF Owners(trees, req.ino) # {}
           THEN \A o \in Owners(trees, req.ino) :
                   LET rec == backup[o[1] + 1].entries[o[2].index + 1]
                   IN IF rec.linked_path # None
                      THEN reply = DataReply(rec.linked_path[1])
                      ELSE reply = ErrorReply("ENOSYS")
           ELSE reply = ErrorReply("ENOENT")

\* The snapshot directories whose signature stream holds only the root record.
RootOnly(ino) == ino \in 2..(S + 1) /\ Len(backup[ino - 1].entries) = 1

\* C14: for a snapshot that holds only the root record, whatever came before
\* and with no I/O failure: readdir of the snapshot directory yields "." and
\* ".." only, getattr of the snapshot inode succeeds, lookup of any name under
\* the snapshot inode replies ENOENT, and no request, the one that
\* materialises the tree included, changes last_ino.
C14_RootOnlySnapshot ==
    [][ (/\ pc = "idle" /\ pc' # "idle" /\ RootOnly(req'.ino)
         /\ reply'.kind # "none")
           => /\ last_ino' = last_ino
              /\ req'.op = "readdir" =>
                    /\ reply'.kind = "dir"
                    /\ req'.offset = 0 =>
                          reply'.entries =
                             << DirEntry(req'.ino, 0, "Directory", "."),
                                DirEntry(1, 1, "Directory", "..") >>
                    /\ req'.offset > 0 => reply'.entries = <<>>
                    /\ trees'[req'.ino - 1] # None
                    /\ trees'[req'.ino - 1][1].root.children = <<>>
              /\ req'.op = "getattr" =>
                    /\ reply'.kind = "attr"
                    /\ reply'.attr.ino = req'.ino
                    /\ reply'.attr.kind = "Directory"
              /\ req'.op = "lookup" => reply' = ErrorReply("ENOENT")
      ]_vars

\* a name was looked up under a root-only snapshot whose tree is materialised,
\* next to a materialised tree with children
C14_Witness ==
    /\ pc = "replied" /\ req.op = "lookup" /\ RootOnly(req.ino)
    /\ trees[req.ino - 1] # None
    /\ reply = ErrorReply("ENOENT")
    /\ \E j \in MaterialisedSids : TreeOf(j).root.children # <<>>

\* C15: a readdir or lookup request during which a call into the backup
\* library fails is answered with ENOENT: a request of these two kinds that
\* does not succeed always has an explicit error reply, and it is ENOENT.
C15_FailureRepliesENOENT ==
    (/\ pc = "replied" /\ req.op \in {"readdir", "lookup"}
     /\ reply.kind \notin {"dir", "entry"})
        => reply = ErrorReply("ENOENT")

\* The materialised trees of a registry keep their inodes apart, and the
\* inodes of each tree are one contiguous block from its root's.
TreesWellFormed(trs) ==
    LET mat == { i \in 1..Len(trs) : trs[i] # None }
    IN /\ \A i \in mat : \A j \in mat \ {i} :
             (NodeInos(trs[i][1].root) \ {trs[i][1].root.ino})
                \cap (NodeInos(trs[j][1].root) \ {trs[j][1].root.ino}) = {}
       /\ \A i \in mat :
             NodeInos(trs[i][1].root) =
                (trs[i][1].root.ino)..(trs[i][1].root.ino
                                         + NodeCount(trs[i][1].root) - 1)

\* C16: a request that ends in a backup I/O failure corrupts nothing: when
\* the tree was not built, trees and last_ino are as before the request; a
\* tree stored before the failure is complete and last_ino accounts for it;
\* the materialised trees stay disjoint and contiguous; and every inode
\* assigned before the request is served afterwards as it was before.
C16_FailureKeepsState ==
    [][ (pc = "idle" /\ pc' = "replied" /\ reply'.kind = "none")
           => /\ \A i \in 1..Len(trees) :
                    \/ trees'[i] = trees[i]
                    \/ /\ trees[i] = None
                       /\ req'.op = "readdir" /\ req'.ino = i + 1
                       /\ trees'[i] # None
                       /\ NodeCount(trees'[i][1].root) = Len(backup[i].entries)
                       /\ last_ino' = MaxOf({last_ino}
                                            \cup (NodeInos(trees'[i][1].root)
                                                    \ {trees'[i][1].root.ino}))
              /\ trees' = trees => last_ino' = last_ino
              /\ Len(trees') = Len(trees)
              /\ TreesWellFormed(trees')
              /\ \A ino \in 0..last_ino :
                    /\ getattr(trees', last_ino', ino, 0).reply
                          = getattr(trees, last_ino, ino, 0).reply
                    /\ readlink_entry(trees', last_ino', ino, 0).reply
                          = readlink_entry(trees, last_ino, ino, 0).reply
      ]_vars

\* listing a snapshot directory failed before its tree was built, while the
\* tree of another snapshot is materialised
C16_Witness ==
    /\ pc = "replied" /\ req.op = "readdir" /\ reply.kind = "none"
    /\ req.ino \in 2..(S + 1)
    /\ trees[req.ino - 1] = None
    /\ \E j \in MaterialisedSids : TreeOf(j).root.children # <<>>

\* The record of an entry <<sid, node>> of a materialised tree.
RecordOf(o) == backup[o[1] + 1].entries[o[2].index + 1]

\* The inode of the directory that holds the entry <<sid, node>>: the
\* snapshot directory for a top-level entry, else the node of the same tree
\* whose record path is the entry's without its last component.
ExpectedParent(o) ==
    LET p == RecordOf(o).path
    IN IF Len(p) = 1 THEN o[1] + 2
       ELSE (CHOOSE n \in EntryNodes(TreeOf(o[1])) :
                backup[o[1] + 1].entries[n.index + 1].path
                   = SubSeq(p, 1, Len(p) - 1)).ino

\* C17: readdir(ino, 0) of a directory entry of a materialised tree emits "."
\* with the directory's inode and ".." with its parent's (the snapshot
\* directory's for a top-level directory); of a snapshot directory, "." with
\* the snapshot inode and ".." with inode 1; with an offset above 0 neither
\* is emitted.
C17_DotAndDotDot ==
    (/\ pc = "replied" /\ req.op = "readdir" /\ reply.kind # "none"
     /\ \/ req.ino \in 2..(S + 1)
        \/ \E o \in Owners(trees, req.ino) : RecordOf(o).entry_type = "Dir")
        => /\ reply.kind = "dir"
           /\ req.offset = 0 =>
                 /\ Len(reply.entries) >= 2
                 /\ reply.entries[1] = DirEntry(req.ino, 0, "Directory", ".")
                 /\ reply.entries[2].name = ".."
                 /\ reply.entries[2].offset = 1
                 /\ req.ino \in 2..(S + 1) => reply.entries[2].ino = 1
                 /\ \A o \in Owners(trees, req.ino) :
                       reply.entries[2].ino = ExpectedParent(o)
           /\ req.offset > 0 =>
                 \A k \in 1..Len(reply.entries) :
                    /\ reply.entries[k].name \notin {".", ".."}
                    /\ reply.entries[k].offset >= 2

\* C18: snapshot ids and snapshot inodes map onto each other:
\* sid_from_ino(ino_from_sid(s)) = s for every sid (last_ino's len included),
\* ino_from_sid(sid_from_ino(ino)) = ino for every inode from 2 on,
\* is_snapshot(ino) exactly when 2 <= ino < S + 2, and so every inode is
\* served as exactly one of root, snapshot and entry.
C18_SidInoBijection ==
    /\ \A s \in 0..S :
          /\ ~SidFromInoPanics(ino_from_sid(s))
          /\ sid_from_ino(ino_from_sid(s)) = s
    /\ \A ino \in 2..(last_ino + 2) :
          /\ sid_from_ino(ino) >= 0
          /\ ino_from_sid(sid_from_ino(ino)) = ino
    /\ \A a \in 0..S : \A b \in 0..S :
          ino_from_sid(a) = ino_from_sid(b) => a = b
    /\ \A ino \in Inos :
          /\ is_snapshot(paths, ino) <=> (2 <= ino /\ ino < S + 2)
          /\ ~(ino = 1 /\ is_snapshot(paths, ino))
          /\ is_snapshot(paths, ino) =>
                /\ sid_from_ino(ino) \in 0..(S - 1)
                /\ sid_from_path(paths, SnapshotNames[sid_from_ino(ino) + 1])
                      = Some(sid_from_ino(ino))
    /\ (pc = "replied" /\ req.op = "getattr" /\ reply.kind = "attr")
          => /\ reply.attr = attr_root <=> req.ino = 1
             /\ reply.attr = attr_snapshot(req.ino) <=> req.ino \in 1..(S + 1)
             /\ reply.attr.perm = "0o777" <=> req.ino > S + 1

\* the attributes of the last of two snapshot directories were asked for,
\* with a tree materialised whose entries follow the snapshot block
C18_Witness ==
    /\ pc = "replied" /\ req.op = "getattr" /\ reply.kind = "attr"
    /\ S = 2 /\ req.ino = S + 1
    /\ is_snapshot(paths, req.ino)
    /\ \E j \in MaterialisedSids : TreeOf(j).root.children # <<>>

\* The path of the record a node of the tree under construction stands for.
PathOfNode(n) == tq.entries[n.index + 1].path

\* C19: for every stream that starts with the root record and lists each
\* directory's subtree contiguously, construction ends with every record
\* consumed, every record is the record of exactly one node, and the tree
\* has as many nodes below its root as the stream has records less one.
C19_EveryRecordOneNode ==
    tq.tree # None =>
        LET root == tq.tree[1].root
        IN /\ TreeNode_new(0, 0, tq.first_ino, tq.entries, 0).some
           /\ TreeNode_new(0, 0, tq.first_ino, tq.entries, 0).pos = Len(tq.entries)
           /\ NodeCount(root) - 1 = Len(tq.entries) - 1
           /\ Cardinality(EntryNodes(tq.tree[1])) = Len(tq.entries) - 1
           /\ { n.index : n \in NodesOf(root) } = 0..(Len(tq.entries) - 1)
           /\ \A n \in NodesOf(root) : \A m \in NodesOf(root) :
                 n.index = m.index => n = m
           /\ root.index = 0

\* a tree of five records is built, with a node three levels down and a
\* record that follows that subtree
C19_Witness ==
    /\ tq.phase = "built"
    /\ Len(tq.entries) = MaxTreeRecords
    /\ NodeCount(tq.tree[1].root) = MaxTreeRecords
    /\ \E i \in 2..(Len(tq.entries) - 1) :
          /\ Len(tq.entries[i].path) >= 3
          /\ Len(tq.entries[i + 1].path) < Len(tq.entries[i].path)

\* C20: the tree mirrors the path hierarchy of the stream: a node is a child
\* of another exactly when its record's path is the other's extended by one
\* component, and siblings are in stream order.  Records [root, a, a/b,
\* a/b/c, d] with first inode 3 give root (3) with children a (4) and d (7),
\* a with child b (5), b with child c (6).
C20_TreeMirrorsPaths ==
    tq.tree # None =>
        LET root == tq.tree[1].root
            IsChild(m, n) == \E k \in 1..Len(n.children) : n.children[k] = m
        IN /\ \A n \in NodesOf(root) : \A m \in NodesOf(root) :
                 IsChild(m, n) <=>
                    /\ Len(PathOfNode(m)) = Len(PathOfNode(n)) + 1
                    /\ SubSeq(PathOfNode(m), 1, Len(PathOfNode(n))) = PathOfNode(n)
           /\ \A n \in NodesOf(root) : \A k \in 1..(Len(n.children) - 1) :
                 n.children[k].index < n.children[k + 1].index
           /\ PathOfNode(root) = <<>>
           /\ (tq.entries = ExampleStream /\ tq.first_ino = 3) =>
                 root = [index |-> 0, ino |-> 3, children |->
                           << [index |-> 1, ino |-> 4, children |->
                                 << [index |-> 2, ino |-> 5, children |->
                                       << [index |-> 3, ino |-> 6,
                                           children |-> <<>>] >>] >>],
                              [index |-> 4, ino |-> 7, children |-> <<>>] >>]

\* the tree of [root, a, a/b, a/b/c, d] with first inode 3 is built: d, the
\* record after the subtree of a, is the second child of the root
C20_Witness ==
    /\ tq.phase = "built"
    /\ tq.entries = ExampleStream /\ tq.first_ino = 3
    /\ PathOfNode(tq.tree[1].root.children[2]) = <<"d">>
    /\ tq.tree[1].root.children[2].ino = 7

\* The nodes of a subtree in the order their records are taken from the
\* stream: TreeNode::new takes the node's record, then builds the children.
RECURSIVE Preorder(_)
Preorder(node) ==
    LET RECURSIVE Cat(_)
        Cat(k) == IF k = 0 THEN <<>>
                  ELSE Cat(k - 1) \o Preorder(node.children[k])
    IN <<node>> \o Cat(Len(node.children))

\* C21: in a built tree every node's index is the stream position of the
\* record taken for the node, and ino - index is the tree's first inode for
\* every node.
C21_IndexIsStreamPosition ==
    tq.tree # None =>
        LET pre == Preorder(tq.tree[1].root)
        IN /\ Len(pre) <= Len(tq.entries)
           /\ \A k \in 1..Len(pre) :
                 /\ pre[k].index = k - 1
                 /\ pre[k].ino - pre[k].index = tq.first_ino

\* a tree is built in which a record follows a subtree of two levels, from a
\* first inode other than 3
C21_Witness ==
    /\ tq.phase = "built"
    /\ tq.first_ino > 3
    /\ Len(tq.tree[1].root.children) >= 2
    /\ \E k \in 1..(Len(tq.tree[1].root.children) - 1) :
          /\ tq.tree[1].root.children[k].children # <<>>
          /\ tq.tree[1].root.children[k].children[1].children # <<>>
          /\ tq.tree[1].root.children[k + 1].index
                >= tq.tree[1].root.children[k].index + 3

\* C22: children iteration over a node, or over the top level of the tree,
\* yields the node's children in order, each paired with the record at
\* stream position child.index, the stream read forward only; the name it
\* gives the child is the record's path component at the iterated depth, the
\* last component of the child's path.
C22_ChildrenPairedWithRecords ==
    tq.phase = "iterated" =>
        LET kids == tq.at[1].node.children
        IN /\ ~tq.items.panic
           /\ Len(tq.items.items) = Len(kids)
           /\ \A k \in 1..Len(kids) :
                 /\ tq.items.items[k].node = kids[k]
                 /\ tq.items.items[k].ino = kids[k].ino
                 /\ tq.items.items[k].entry = tq.entries[kids[k].index + 1]
                 /\ Len(tq.entries[kids[k].index + 1].path) = tq.at[1].depth + 1
                 /\ tq.items.items[k].name =
                       [panic |-> FALSE,
                        path |-> Some(Last(tq.entries[kids[k].index + 1].path))]
                 /\ k > 1 => kids[k].index > kids[k - 1].index

\* the children of a directory below the top level were iterated: two of
\* them, with the subtree of the first between their records
C22_Witness ==
    /\ tq.phase = "iterated"
    /\ tq.at[1].depth >= 1
    /\ Len(tq.items.items) >= 2
    /\ tq.items.items[2].node.index > tq.items.items[1].node.index + 1

\* C23: a snapshot's tree is built on the first access of any kind: a
\* lookup under the inode of a snapshot whose tree is not materialised builds
\* the tree and is answered from it, so lookup(snapshot inode, name) of an
\* existing top-level child succeeds with or without an earlier readdir.
C23_LookupBuildsTree ==
    (/\ pc = "replied" /\ req.op = "lookup" /\ req.ino \in 2..(S + 1)
     /\ req.name \in ChildNames(req.ino) /\ reply.kind # "none")
        => /\ trees[req.ino - 1] # None
           /\ reply.kind = "entry"
           /\ reply.attr.ino \in NodeInos(TreeOf(req.ino - 2).root)
                                   \ {TreeOf(req.ino - 2).root.ino}

\* C24: last_ino is the largest inode allocated so far: S + 2 while no tree
\* is materialised, and afterwards at least the inode of every node, dummy
\* roots included, of every materialised tree, so that last_ino + 1 is above
\* every inode in use.
C24_LastInoIsLargest ==
    /\ MaterialisedSids = {} => last_ino = S + 2
    /\ last_ino >= S + 2
    /\ \A ino \in AssignedInos(trees) : ino <= last_ino

\* C25: getattr, lookup and readlink leave every tree slot and last_ino as
\* they are, whatever their arguments and outcome; so does a readdir of the
\* root or of an entry; a readdir of a snapshot inode changes at most the
\* slot of that snapshot.
C25_ReadOnlyRequests ==
    [][ /\ (pc = "idle" /\ pc' # "idle")
           => /\ req'.op \in {"getattr", "lookup", "readlink"}
                    => (trees' = trees /\ last_ino' = last_ino)
              /\ (req'.op = "readdir" /\ req'.ino \notin 2..(S + 1))
                    => (trees' = trees /\ last_ino' = last_ino)
              /\ (req'.op = "readdir" /\ req'.ino \in 2..(S + 1))
                    => \A i \in (1..Len(trees)) \ {req'.ino - 1} :
                          trees'[i] = trees[i]
        /\ pc # "idle" => (trees' = trees /\ last_ino' = last_ino)
        /\ Len(trees') = Len(trees)
      ]_vars

\* a name was looked up and found under a directory entry of a materialised
\* tree, next to a snapshot whose tree is not materialised
C25_Witness ==
    /\ pc = "replied" /\ req.op = "lookup" /\ req.ino > S + 1
    /\ reply.kind = "entry"
    /\ \E i \in 1..Len(trees) : trees[i] = None

\* C26: find_node is sound: a node it returns has the inode asked for and
\* the depth recorded with it is the node's depth in the tree; for an inode
\* no node of the tree holds it returns none.
C26_FindNodeSound ==
    tq.phase = "found" =>
        /\ tq.found # None =>
              /\ tq.found[1].node.ino = tq.ino
              /\ tq.found[1] \in EntriesBelow(tq.tree[1].root, 0)
        /\ tq.ino \notin NodeInos(tq.tree[1].root) => tq.found = None

\* find_node returned a node two levels below the root
C26_Witness ==
    /\ tq.phase = "found"
    /\ tq.found # None
    /\ tq.found[1].depth >= 2
    /\ tq.found[1].node.ino = tq.ino

\* C27: no request sequence reaches a failing assertion or an underflow (on
\* backups whose signature streams hold at least the root record): no
\* handler panics; sid_from_ino is called with ino >= 2 only and every sid
\* used to index the tree slots is below S; the skip count offset - 1 of
\* readdir is taken of an offset >= 1; and in children iteration
\* child.index - cursor - 1 is never negative, child indices being strictly
\* increasing and at least 1.
C27_NoPanic ==
    /\ pc # "crashed"
    /\ reply.kind # "panic"
    /\ (req.op \in {"getattr", "readdir"} /\ is_snapshot(paths, req.ino))
          => /\ ~SidFromInoPanics(req.ino)
             /\ sid_from_ino(req.ino) \in 0..(S - 1)
    /\ req.op = "readdir" => AfterDots(req.offset) - 1 >= 0
    /\ \A name \in DOMAIN paths : paths[name] \in 0..(S - 1)
    /\ \A ino \in Inos :
          find_tree_with_ino(trees, ino) # None
             => find_tree_with_ino(trees, ino)[1][2] \in 0..(S - 1)
    /\ \A sid \in MaterialisedSids :
          \A e \in EntriesBelow(TreeOf(sid).root, 0) :
             /\ ~CollectItems(NodeEntry_children(e, backup[sid + 1].entries),
                              <<>>).panic
             /\ \A k \in 1..Len(e.node.children) :
                   /\ e.node.children[k].index >= 1
                   /\ e.node.children[k].index
                         - (IF k = 1 THEN 0 ELSE e.node.children[k - 1].index)
                         - 1 >= 0

\* a listing of a directory entry was resumed at a cookie: the skip count
\* was taken and the iterator skipped records without a panic
C27_Witness ==
    /\ pc = "replied" /\ req.op = "readdir" /\ reply.kind = "dir"
    /\ req.ino > S + 1
    /\ req.offset >= 2
    /\ reply.entries # <<>>

\* The inodes of entries the reply of the request just served hands out: the
\* children listed by a readdir below the root, the entry found by a lookup
\* below the root.
EmittedEntryInos ==
    IF pc = "replied" /\ req.op = "readdir" /\ req.ino # 1 /\ reply.kind = "dir"
    THEN { reply.entries[k].ino :
             k \in { j \in 1..Len(reply.entries) : reply.entries[j].offset >= 2 } }
    ELSE IF pc = "replied" /\ req.op = "lookup" /\ req.ino # 1
            /\ reply.kind = "entry"
    THEN { reply.attr.ino }
    ELSE {}

\* C28: every inode readdir or lookup emits for an entry of a snapshot tree
\* is above S + 2, hence neither the root's nor a snapshot directory's, and
\* exactly one materialised tree matches it in find_tree_with_ino.
C28_EntryInodesAboveSnapshots ==
    \A ino \in EmittedEntryInos \cup
               UNION { NodeInos(TreeOf(sid).root) \ {TreeOf(sid).root.ino}
                       : sid \in MaterialisedSids } :
        /\ ino > S + 2
        /\ ino # 1
        /\ ~is_snapshot(paths, ino)
        /\ Cardinality({ i \in 1..Len(trees) :
                           trees[i] # None /\ TreeHasIno(trees[i][1], ino) }) = 1
        /\ find_tree_with_ino(trees, ino) # None
        /\ Owners(trees, ino) # {}
        /\ \A o \in Owners(trees, ino) : o[1] = find_tree_with_ino(trees, ino)[1][2]

\* a listing of the second snapshot's directory handed out entry inodes while
\* the first snapshot's tree, with children, is materialised too
C28_Witness ==
    /\ S = 2 /\ MaterialisedSids = {0, 1}
    /\ req.ino = 3
    /\ EmittedEntryInos # {}
    /\ TreeOf(0).root.children # <<>>

\* RuplicityFs::new on a backup in which the signature stream of at least one
\* snapshot yields no record at all.
InitEmpty ==
    /\ \E n \in 1..MaxSnapshots :
         \E streams \in [1..n -> Streams(MaxRecords) \cup {<<>>}] :
            /\ \E i \in 1..n : streams[i] = <<>>
            /\ backup = [i \in 1..n |->
                           [time |-> SnapshotTime(i - 1), entries |-> streams[i]]]
    /\ paths = SnapshotsInos_new(backup)
    /\ last_ino = SnapshotsInos_last_ino(paths)
    /\ trees = [i \in 1..SnapshotsInos_len(paths) |-> None]
    /\ pc = "idle"
    /\ req = NoReq
    /\ reply = NoReply
    /\ walk = NoWalk
    /\ tq = NoT

SpecEmpty == InitEmpty /\ [][Next]_vars

\* C29: for a snapshot whose signature stream yields no record, the tree is
\* a dummy root without children, and readdir of the snapshot directory
\* completes with "." and ".." only (nothing at a later offset): iterating
\* the children of the empty tree does not fail.
C29_EmptyStreamListing ==
    (/\ pc # "idle" /\ req.op = "readdir" /\ req.ino \in 2..(S + 1)
     /\ backup[req.ino - 1].entries = <<>> /\ reply.kind # "none")
        => /\ trees[req.ino - 1] # None
           /\ TreeOf(req.ino - 2).root.children = <<>>
           /\ reply = DirReply(IF req.offset = 0
                               THEN << DirEntry(req.ino, 0, "Directory", "."),
                                       DirEntry(1, 1, "Directory", "..") >>
                               ELSE <<>>)

====
